---- MODULE Spec2Model ----
(***************************************************************************)
(* Model of the vroom start-up and dispatch layer:                         *)
(*   auth.Initialize                    (src/auth/initialize.go)           *)
(*   api_http.Initialize and its steps  (src/api_http/initialize.go)       *)
(*   api_ws.Initialize                  (src/unnamed/part_000)             *)
(*   util.NewID / util.NewUUID          (src/unnamed/part_001)             *)
(*                                                                         *)
(* Three specifications share the variables:                               *)
(*   SpecAuth  repeated calls of auth.Initialize and Initialize_Auth       *)
(*   Spec      api_http.Initialize followed by served requests             *)
(*   SpecID    concurrent callers of NewID / NewUUID                       *)
(***************************************************************************)
EXTENDS Integers, Sequences, FiniteSets, TLC

VARIABLES
    _cookieSessName,   \* auth: var _cookieSessName string
    _cookieStoreId,    \* auth: var _cookieStoreId string
    _cookieStore,      \* auth: var _cookieStore *sessions.CookieStore
    _cookiePath,       \* auth: var _cookiePath string
    _cookieDomain,     \* auth: var _cookieDomain string
    _cookieMaxAge,     \* auth: var _cookieMaxAge int
    deAuthListeners,   \* auth: the de-auth listener registry
    _versionWatcher,   \* api_http: var _versionWatcher *reseer.Seer
    appVersion,        \* api_http: the version text set by setAppVersion
    reqres_onPanic,    \* reqres: the stored panic callback
    xhr_onPanic,       \* api_xhr: the stored panic callback
    _verGetter,        \* api_ws: var _verGetter
    _onPanic,          \* api_ws: var _onPanic
    router,            \* the gorilla/mux router handed to http.Handle("/")
    _ctx,              \* api_http: var _ctx Ctx
    loopVarPerIter,    \* Go language version of the build: range variable per iteration?
    _baseID,           \* util: var _baseID int64
    _lastID,           \* util: var _lastID int64
    returned,          \* per caller, the IDs NewID returned to it, in order
    completed,         \* all IDs returned by NewID, in order of the increments
    last               \* the last operation called and what it returned

authVars == <<_cookieSessName, _cookieStoreId, _cookieStore, _cookiePath,
              _cookieDomain, _cookieMaxAge>>
httpVars == <<_versionWatcher, appVersion, reqres_onPanic, xhr_onPanic,
              _verGetter, _onPanic, router, _ctx, loopVarPerIter>>
idVars   == <<_baseID, _lastID, returned, completed>>
vars     == <<authVars, deAuthListeners, httpVars, idVars, last>>

\* Go's nil and the nil error.
NIL == "nil"
NoErr == "nil"

(***************************************************************************)
(* Bounds                                                                  *)
(***************************************************************************)
MaxAgeLen == 2        \* longest enumerated cookieMaxAge string, in characters
MaxListeners == 2     \* registry length up to which Initialize_Auth is called
MaxRoutes == 2        \* total number of routes in the handler maps of a Ctx
MaxIDs == 5           \* number of NewID increments explored
NumCallers == 3       \* concurrent callers of NewID

(***************************************************************************)
(* strconv.Atoi, on strings given as sequences of characters               *)
(***************************************************************************)
Digits == {"0", "1", "2", "3", "4", "5", "6", "7", "8", "9"}

DigitVal(c) ==
    CASE c = "0" -> 0 [] c = "1" -> 1 [] c = "2" -> 2 [] c = "3" -> 3
      [] c = "4" -> 4 [] c = "5" -> 5 [] c = "6" -> 6 [] c = "7" -> 7
      [] c = "8" -> 8 [] c = "9" -> 9

RECURSIVE ParseDigits(_, _)
ParseDigits(s, acc) ==
    IF s = <<>> THEN [n |-> acc, ok |-> TRUE]
    ELSE IF Head(s) \notin Digits THEN [n |-> 0, ok |-> FALSE]
    ELSE ParseDigits(Tail(s), acc * 10 + DigitVal(Head(s)))

\* strconv.Atoi(s): an optional sign, then one or more decimal digits.  On a
\* syntax error the value returned is 0.  (The range error of Atoi needs more
\* than 18 digits and is outside the enumerated strings.)
Atoi(s) ==
    IF s = <<>> THEN [n |-> 0, ok |-> FALSE]
    ELSE LET signed == Head(s) \in {"+", "-"}
             body   == IF signed THEN Tail(s) ELSE s
             p      == IF body = <<>> THEN [n |-> 0, ok |-> FALSE]
                       ELSE ParseDigits(body, 0)
         IN  IF ~p.ok THEN [n |-> 0, ok |-> FALSE]
             ELSE [n |-> IF Head(s) = "-" THEN 0 - p.n ELSE p.n, ok |-> TRUE]

(***************************************************************************)
(* auth.Initialize                                                         *)
(***************************************************************************)
ErrAuthName   == "Auth cannot be configured with empty cookie session name"
ErrAuthStore  == "Auth cannot be configured with empty cookie store id"
ErrAuthMaxAge == "Auth cannot be configured with cookie maxAge not integer"

\* sessions.NewCookieStore([]byte(cookieStoreId))
NewCookieStore(key) == [key |-> key]

\* A mutant of auth.Initialize: the check of the store id is missing.
auth_Initialize_err_NoStoreCheck(cookieSessName, cookieStoreId, cookieMaxAge) ==
    IF cookieSessName = "" THEN ErrAuthName
    ELSE IF ~Atoi(cookieMaxAge).ok THEN ErrAuthMaxAge
    ELSE NoErr

\* The error auth.Initialize returns.
auth_Initialize_err(cookieSessName, cookieStoreId, cookieMaxAge) ==
    IF cookieSessName = "" THEN ErrAuthName
    ELSE IF cookieStoreId = "" THEN ErrAuthStore
    ELSE IF ~Atoi(cookieMaxAge).ok THEN ErrAuthMaxAge
    ELSE NoErr

\* The effect of auth.Initialize on the package variables.  The two empty
\* checks return before anything is written; `_cookieMaxAge, err = Atoi(..)`
\* writes _cookieMaxAge whether or not the parse succeeds; the other five are
\* written after the parse succeeded.
auth_Initialize_effect(cookieSessName, cookieStoreId, cookiePath, cookieDomain, cookieMaxAge) ==
    LET err == auth_Initialize_err(cookieSessName, cookieStoreId, cookieMaxAge)
    IN  /\ _cookieMaxAge' = IF err \in {ErrAuthName, ErrAuthStore} THEN _cookieMaxAge
                            ELSE Atoi(cookieMaxAge).n
        /\ IF err = NoErr
           THEN /\ _cookieSessName' = cookieSessName
                /\ _cookieStoreId' = cookieStoreId
                /\ _cookieStore' = NewCookieStore(cookieStoreId)
                /\ _cookiePath' = cookiePath
                /\ _cookieDomain' = cookieDomain
           ELSE UNCHANGED <<_cookieSessName, _cookieStoreId, _cookieStore,
                            _cookiePath, _cookieDomain>>

(***************************************************************************)
(* api_http.Initialize_Auth                                                *)
(***************************************************************************)
ErrCookieName  == "Cookie name must be specified"
ErrCookieStore == "Cookie store ID must be specified"

CloseAuthdConn == "api_ws.CloseAuthdConn"

\* auth.AddListener_DeAuth(listener): appends, no de-duplication.
AddListener_DeAuth(listeners, listener) == Append(listeners, listener)

\* The error Initialize_Auth returns for ctx.Auth = params.
Initialize_Auth_err(params) ==
    IF params.CookieName = "" THEN ErrCookieName
    ELSE IF params.CookieStoreId = "" THEN ErrCookieStore
    ELSE auth_Initialize_err(params.CookieName, params.CookieStoreId, params.CookieMaxAge)

\* The effect of Initialize_Auth: the two early returns touch nothing; past
\* them auth.Initialize runs and the listener is registered whatever
\* auth.Initialize returned.
Initialize_Auth_effect(params) ==
    IF params.CookieName = "" \/ params.CookieStoreId = ""
    THEN UNCHANGED <<authVars, deAuthListeners>>
    ELSE /\ auth_Initialize_effect(params.CookieName, params.CookieStoreId,
                                   params.CookiePath, params.CookieDomain,
                                   params.CookieMaxAge)
         /\ deAuthListeners' = AddListener_DeAuth(deAuthListeners, CloseAuthdConn)

(***************************************************************************)
(* Inputs of the auth specification                                        *)
(***************************************************************************)
AgeAlphabet == {"-", "1", "a"}

AgeStrings ==
    UNION {[1..n -> AgeAlphabet] : n \in 0..MaxAgeLen}
      \cup {<<"3", "6", "0", "0">>, <<"a", "b", "c">>, <<"+", "5">>, <<"0">>}

CookieNames == {"", "sess"}
CookieStoreIds == {"", "abc123"}
CookiePaths == {"/"}
CookieDomains == {"example.com"}

AuthParams ==
    [CookieName : CookieNames, CookieStoreId : CookieStoreIds,
     CookiePath : CookiePaths, CookieDomain : CookieDomains,
     CookieMaxAge : AgeStrings]


(***************************************************************************)
(* Package initializers called by api_http.Initialize                      *)
(***************************************************************************)
ErrOnPanic     == "OnPanic handler must be provided"
ErrWSVerGetter == "Websocket handler needs Version Getter handler"
ErrWSOnPanic   == "Websocket handler needs OnPanic handler"
ErrSeer        == "reseer: cannot start"
ErrPkgOnPanic  == "Handler needs OnPanic handler"

OnPanicCb == "ctx.OnPanic"
GetVersion == "api_http.GetVersion"

\* A mutant of api_ws.Initialize: the callback is checked but never stored.
api_ws_Initialize_NotStored(verGetter, onPanic) ==
    IF verGetter = NIL
    THEN [err |-> ErrWSVerGetter, verGetter |-> _verGetter, onPanic |-> _onPanic]
    ELSE IF onPanic = NIL
    THEN [err |-> ErrWSOnPanic, verGetter |-> _verGetter, onPanic |-> _onPanic]
    ELSE [err |-> NoErr, verGetter |-> verGetter, onPanic |-> _onPanic]

\* api_ws.Initialize(verGetter, onPanic): the error and the new values of the
\* package variables _verGetter and _onPanic.
api_ws_Initialize(verGetter, onPanic) ==
    IF verGetter = NIL
    THEN [err |-> ErrWSVerGetter, verGetter |-> _verGetter, onPanic |-> _onPanic]
    ELSE IF onPanic = NIL
    THEN [err |-> ErrWSOnPanic, verGetter |-> _verGetter, onPanic |-> _onPanic]
    ELSE [err |-> NoErr, verGetter |-> verGetter, onPanic |-> onPanic]

\* reqres.Initialize(onPanic) and api_xhr.Initialize(onPanic): the error and
\* the new value of the package's stored callback (old is the current one).
pkg_Initialize(old, onPanic) ==
    IF onPanic = NIL
    THEN [err |-> ErrPkgOnPanic, onPanic |-> old]
    ELSE [err |-> NoErr, onPanic |-> onPanic]

(***************************************************************************)
(* Routes of a Ctx                                                         *)
(***************************************************************************)
Patterns == {"/home", "/index"}
Handlers == {"h1", "h2"}
NotFoundH == "hNotFound"
Paths == {"/home", "/", "/index", "/nope"}

\* routeSynonyms(r): the patterns one HTML route is bound under, r first.
routeSynonyms(r) ==
    IF r = "/home" THEN <<"/home", "/", "/index">> ELSE <<r>>

\* The handler collections in the order Initialize_Router walks them.
Classes == <<"HTML Public", "HTML Authd", "XHR Public", "XHR Authd",
             "WS Public", "WS Authd", "FILE Public">>
MapClasses == {1, 2, 3, 4, 7}
WSClasses == {5, 6}

\* The auth flag Initialize_Router passes for each collection.
ClassAuthd(c) == c \in {2, 4, 6}

\* The handler maker Initialize_Router uses for each collection
\* (FILE routes are made with makeHandler_HTML).
ClassAdapter(c) ==
    IF c \in {1, 2, 7} THEN "HTML" ELSE IF c \in {3, 4} THEN "XHR" ELSE "WS"

Entries == [class : DOMAIN Classes, r : Patterns, h : Handlers]

\* A list of routes, grouped by collection in the order of Classes.  Within a
\* map no key occurs twice; a WS slice may repeat a URL.  The order of a
\* map's entries in the list is the order Go's range yields them in.
IsRouteList(es) ==
    /\ \A i \in 1..(Len(es) - 1) : es[i].class <= es[i + 1].class
    /\ \A i, j \in DOMAIN es :
          (i # j /\ es[i].class = es[j].class /\ es[i].class \in MapClasses)
              => es[i].r # es[j].r

RouteLists ==
    {es \in UNION {[1..n -> Entries] : n \in 0..MaxRoutes} : IsRouteList(es)}

\* The entries of collection c, in order.
ClassEntries(es, c) == SelectSeq(es, LAMBDA e : e.class = c)

\* The Go map of collection c: route -> handler.
HMapOf(es, c) ==
    LET ce == ClassEntries(es, c)
    IN  [r \in {ce[i].r : i \in DOMAIN ce} |->
            ce[CHOOSE i \in DOMAIN ce : ce[i].r = r].h]

\* The Go slice of WebSocket_Route of collection c.
SliceOf(es, c) ==
    LET ce == ClassEntries(es, c)
    IN  [i \in DOMAIN ce |-> [URL |-> ce[i].r, Procs |-> ce[i].h]]

\* The order range yields the keys of the map of collection c in.
KeyOrder(es, c) ==
    LET ce == ClassEntries(es, c)
    IN  [i \in DOMAIN ce |-> ce[i].r]

\* The Ctx value and the iteration orders a route list stands for.
CtxOf(auth, onPanic, es) ==
    [Auth |-> auth,
     OnPanic |-> onPanic,
     Handlers_HTML |-> [Public |-> HMapOf(es, 1), Authd |-> HMapOf(es, 2),
                        NotFound |-> NotFoundH],
     Handlers_XHR |-> [Public |-> HMapOf(es, 3), Authd |-> HMapOf(es, 4)],
     Handlers_WS |-> [Public |-> SliceOf(es, 5), Authd |-> SliceOf(es, 6)],
     Handlers_FILE |-> [Public |-> HMapOf(es, 7)]]

OrderOf(es) == [c \in MapClasses |-> KeyOrder(es, c)]


(***************************************************************************)
(* Initialize_Router                                                       *)
(***************************************************************************)
NilPtr == [nil |-> TRUE]

\* What makeHandler_HTML / makeHandler_XHR return: a closure over h and the
\* auth flag.
makeHandler(adapter, h, authd) ==
    [adapter |-> adapter, h |-> h, wsr |-> NilPtr, authd |-> authd]

\* What makeHandler_WS returns: a closure over the pointer it was given and
\* the auth flag; wsr is what that pointer refers to once the loop has ended.
makeHandler_WS(wsr, authd) ==
    [adapter |-> "WS", h |-> NIL, wsr |-> wsr, authd |-> authd]

\* router.HandleFunc(pattern, f): one more route at the end of the router.
HandleFunc(pattern, f) == [pattern |-> pattern, f |-> f]

\* makeRouteHandlers: one route per synonym, all made from the same h, authd.
makeRouteHandlers(r, h, authd) ==
    [i \in DOMAIN routeSynonyms(r) |->
        HandleFunc(routeSynonyms(r)[i], makeHandler("HTML", h, authd))]

\* for r, h := range m { makeRouteHandlers(.., r, h, authd, ..) }
RECURSIVE RangeHTML(_, _, _)
RangeHTML(m, keys, authd) ==
    IF keys = <<>> THEN <<>>
    ELSE makeRouteHandlers(Head(keys), m[Head(keys)], authd)
            \o RangeHTML(m, Tail(keys), authd)

\* for r, h := range m { router.HandleFunc(r, makeHandler_X(ctx, h, authd)) }
RangeMap(m, keys, adapter, authd) ==
    [i \in DOMAIN keys |->
        HandleFunc(keys[i], makeHandler(adapter, m[keys[i]], authd))]

\* What &wsr of iteration i refers to when a request is served: the element
\* of that iteration if every iteration has its own variable, the last
\* element of the slice if the loop has one variable.
LoopVar(slice, i, perIter) == IF perIter THEN slice[i] ELSE slice[Len(slice)]

\* for _, wsr := range slice { router.HandleFunc(wsr.URL, makeHandler_WS(ctx, &wsr, authd)) }
RangeWS(slice, authd, perIter) ==
    [i \in DOMAIN slice |->
        HandleFunc(slice[i].URL, makeHandler_WS(LoopVar(slice, i, perIter), authd))]

\* The router Initialize_Router builds and hands to http.Handle("/", router);
\* order[c] is the order range yields the keys of the map of collection c in.
Initialize_Router(ctx, order, perIter) ==
    [bound |-> TRUE,
     routes |->
        RangeHTML(ctx.Handlers_HTML.Public, order[1], FALSE)
        \o RangeHTML(ctx.Handlers_HTML.Authd, order[2], TRUE)
        \o RangeMap(ctx.Handlers_XHR.Public, order[3], "XHR", FALSE)
        \o RangeMap(ctx.Handlers_XHR.Authd, order[4], "XHR", TRUE)
        \o RangeWS(ctx.Handlers_WS.Public, FALSE, perIter)
        \o RangeWS(ctx.Handlers_WS.Authd, TRUE, perIter)
        \o RangeMap(ctx.Handlers_FILE.Public, order[7], "HTML", FALSE),
     NotFoundHandler |-> makeHandler("HTML", ctx.Handlers_HTML.NotFound, FALSE)]

NoRouter == [bound |-> FALSE, routes |-> <<>>, NotFoundHandler |-> NilPtr]

(***************************************************************************)
(* Serving a request                                                       *)
(***************************************************************************)
\* mux.Router.Match: the index of the first route, in registration order,
\* whose pattern is the request path; 0 if there is none.
Match(rt, path) ==
    LET hits == {i \in DOMAIN rt.routes : rt.routes[i].pattern = path}
    IN  IF hits = {} THEN 0
        ELSE CHOOSE i \in hits : \A j \in hits : i <= j

\* The handler a request for path is dispatched to.
Resolve(rt, path) ==
    IF Match(rt, path) = 0 THEN rt.NotFoundHandler
    ELSE rt.routes[Match(rt, path)].f

\* The panic callback the guard of each adapter reports to.
GuardCallback(adapter) ==
    IF adapter = "WS" THEN _onPanic
    ELSE IF adapter = "XHR" THEN xhr_onPanic
    ELSE reqres_onPanic

\* One request: Match, AuthGate, Execute under the panic guard, Respond.
\* session: the request carries a valid session; fails: the handler fails.
Dispatch(rt, path, session, fails) ==
    LET m == Match(rt, path)
        f == Resolve(rt, path)
        base == [op |-> "Serve", path |-> path, session |-> session,
                 fails |-> fails, matched |-> m # 0, f |-> f]
    IN  IF m # 0 /\ f.authd /\ ~session
        THEN base @@ [outcome |-> "AuthRejected", invoked |-> FALSE, onPanicCalls |-> <<>>]
        ELSE IF ~fails
        THEN base @@ [outcome |-> IF m = 0 THEN "NotFound" ELSE "Responded",
                      invoked |-> TRUE, onPanicCalls |-> <<>>]
        ELSE IF GuardCallback(f.adapter) = NIL
        THEN base @@ [outcome |-> "Crashed", invoked |-> TRUE, onPanicCalls |-> <<>>]
        ELSE base @@ [outcome |-> "PanicRecovered", invoked |-> TRUE,
                      onPanicCalls |-> <<[cb |-> GuardCallback(f.adapter), url |-> path]>>]


(***************************************************************************)
(* util.NewID                                                              *)
(***************************************************************************)
Callers == 1..NumCallers

\* A mutant of atomic.AddInt64: a fetch-and-add, returning the old value.
atomic_AddInt64_FetchAdd(val, delta) == [val |-> val + delta, ret |-> val]

\* atomic.AddInt64(&val, delta): one indivisible step that stores val + delta
\* and returns the new value.
atomic_AddInt64(val, delta) == [val |-> val + delta, ret |-> val + delta]

(***************************************************************************)
(* Initial state: the package variables as the Go runtime and init() leave *)
(* them                                                                    *)
(***************************************************************************)
InitAuthVars ==
    /\ _cookieSessName = ""
    /\ _cookieStoreId = ""
    /\ _cookieStore = NilPtr
    /\ _cookiePath = ""
    /\ _cookieDomain = ""
    /\ _cookieMaxAge = 0
    /\ deAuthListeners = <<>>

InitHttpVars ==
    /\ _versionWatcher = NIL
    /\ appVersion = ""
    /\ reqres_onPanic = NIL
    /\ xhr_onPanic = NIL
    /\ _verGetter = NIL
    /\ _onPanic = NIL
    /\ router = NoRouter
    /\ _ctx = NilPtr

\* util.init(): _baseID = 0; _lastID = _baseID.
InitIdVars ==
    /\ _baseID = 0
    /\ _lastID = _baseID
    /\ returned = [c \in Callers |-> <<>>]
    /\ completed = <<>>

Init ==
    /\ InitAuthVars
    /\ InitHttpVars
    /\ InitIdVars
    /\ loopVarPerIter \in BOOLEAN
    /\ last = [op |-> "none"]

(***************************************************************************)
(* Actions of the auth specification                                       *)
(***************************************************************************)
\* A call of auth.Initialize.
AuthInitialize ==
    \E p \in AuthParams :
        /\ auth_Initialize_effect(p.CookieName, p.CookieStoreId, p.CookiePath,
                                  p.CookieDomain, p.CookieMaxAge)
        /\ last' = [op |-> "auth.Initialize", params |-> p,
                    err |-> auth_Initialize_err(p.CookieName, p.CookieStoreId,
                                                p.CookieMaxAge)]
        /\ UNCHANGED <<deAuthListeners, httpVars, idVars>>

\* A call of api_http.Initialize_Auth with ctx.Auth = p.
InitializeAuth ==
    /\ Len(deAuthListeners) < MaxListeners
    /\ \E p \in AuthParams :
        /\ Initialize_Auth_effect(p)
        /\ last' = [op |-> "Initialize_Auth", params |-> p,
                    err |-> Initialize_Auth_err(p)]
        /\ UNCHANGED <<httpVars, idVars>>

NextAuth == AuthInitialize \/ InitializeAuth

SpecAuth == Init /\ [][NextAuth]_vars

(***************************************************************************)
(* Actions of the start-up and dispatch specification                      *)
(***************************************************************************)
ValidAuth ==
    [CookieName |-> "sess", CookieStoreId |-> "abc123", CookiePath |-> "/",
     CookieDomain |-> "example.com", CookieMaxAge |-> <<"3", "6", "0", "0">>]

CtxAuths ==
    {ValidAuth,
     [ValidAuth EXCEPT !.CookieName = ""],
     [ValidAuth EXCEPT !.CookieMaxAge = <<"a", "b", "c">>]}

Seer == "seer"
VersionTxt == "v1"

\* A mutant of the OnPanic check: the check is missing.
OnPanicCheck_Missing(onPanic) == NoErr

\* Initialize: if ctx.OnPanic == nil { return error }
OnPanicCheck(onPanic) == IF onPanic = NIL THEN ErrOnPanic ELSE NoErr

\* The error of each step of api_http.Initialize, were the step reached:
\* Auth, Dirs, OnPanic, ReqRes, XHR, WS, Router.
StepErrs(auth, onPanic, seerOk) ==
    <<Initialize_Auth_err(auth),
      IF seerOk THEN NoErr ELSE ErrSeer,
      OnPanicCheck(onPanic),
      pkg_Initialize(reqres_onPanic, onPanic).err,
      pkg_Initialize(xhr_onPanic, onPanic).err,
      api_ws_Initialize(GetVersion, onPanic).err,
      NoErr>>

\* The step api_http.Initialize returns at: the first one with an error, 8 if
\* none has one.
ReturnsAt(errs) ==
    IF \A k \in DOMAIN errs : errs[k] = NoErr THEN 8
    ELSE CHOOSE k \in DOMAIN errs :
            errs[k] # NoErr /\ \A j \in 1..(k - 1) : errs[j] = NoErr

\* A call of api_http.Initialize(ctx).  seerOk: reseer.New succeeds.
Initialize ==
    /\ ~router.bound
    /\ Len(deAuthListeners) < MaxListeners
    /\ \E auth \in CtxAuths, onPanic \in {NIL, OnPanicCb}, seerOk \in BOOLEAN :
        LET errs == StepErrs(auth, onPanic, seerOk)
            at == ReturnsAt(errs)
            err == IF at = 8 THEN NoErr ELSE errs[at]
        IN  /\ Initialize_Auth_effect(auth)
            /\ IF at >= 2
               THEN /\ _versionWatcher' = IF seerOk THEN Seer ELSE NIL
                    /\ appVersion' = IF seerOk THEN VersionTxt ELSE appVersion
               ELSE UNCHANGED <<_versionWatcher, appVersion>>
            /\ reqres_onPanic' = IF at >= 4
                                 THEN pkg_Initialize(reqres_onPanic, onPanic).onPanic
                                 ELSE reqres_onPanic
            /\ xhr_onPanic' = IF at >= 5
                              THEN pkg_Initialize(xhr_onPanic, onPanic).onPanic
                              ELSE xhr_onPanic
            /\ _verGetter' = IF at >= 6
                             THEN api_ws_Initialize(GetVersion, onPanic).verGetter
                             ELSE _verGetter
            /\ _onPanic' = IF at >= 6
                           THEN api_ws_Initialize(GetVersion, onPanic).onPanic
                           ELSE _onPanic
            /\ IF at = 8
               THEN \E es \in RouteLists :
                        /\ router' = Initialize_Router(CtxOf(auth, onPanic, es),
                                                       OrderOf(es), loopVarPerIter)
                        /\ _ctx' = CtxOf(auth, onPanic, es)
               ELSE UNCHANGED <<router, _ctx>>
            /\ last' = [op |-> "Initialize", auth |-> auth, onPanic |-> onPanic,
                        seerOk |-> seerOk, err |-> err]
            /\ UNCHANGED <<loopVarPerIter, idVars>>

\* One request served by the bound router.  A failure of the NotFound handler
\* is left out: what happens then is not defined by the sources at hand.
Serve ==
    /\ router.bound
    /\ \E path \in Paths, session \in BOOLEAN, fails \in BOOLEAN :
        /\ fails => Match(router, path) # 0
        /\ last' = Dispatch(router, path, session, fails)
    /\ UNCHANGED <<authVars, deAuthListeners, httpVars, idVars>>

Next == Initialize \/ Serve

Spec == Init /\ [][Next]_vars

(***************************************************************************)
(* Actions of the ID specification                                         *)
(***************************************************************************)
\* Caller c calls NewID.
NewID(c) ==
    /\ Len(completed) < MaxIDs
    /\ LET r == atomic_AddInt64(_lastID, 1)
       IN  /\ _lastID' = r.val
           /\ returned' = [returned EXCEPT ![c] = Append(@, r.ret)]
           /\ completed' = Append(completed, r.ret)
           /\ last' = [op |-> "NewID", caller |-> c, id |-> r.ret]
    /\ UNCHANGED <<authVars, deAuthListeners, httpVars, _baseID>>

\* Caller c calls NewUUID and uuidgen fails: NewUUID falls back to NewID.
NewUUID_Fallback(c) ==
    /\ Len(completed) < MaxIDs
    /\ LET r == atomic_AddInt64(_lastID, 1)
       IN  /\ _lastID' = r.val
           /\ returned' = [returned EXCEPT ![c] = Append(@, r.ret)]
           /\ completed' = Append(completed, r.ret)
           /\ last' = [op |-> "NewUUID", caller |-> c, id |-> r.ret]
    /\ UNCHANGED <<authVars, deAuthListeners, httpVars, _baseID>>

\* Caller c calls NewUUID and uuidgen succeeds: no ID is drawn.
NewUUID_Ok(c) ==
    /\ last' = [op |-> "NewUUID", caller |-> c, id |-> 0]
    /\ UNCHANGED <<authVars, deAuthListeners, httpVars, idVars>>

NextID == \E c \in Callers : NewID(c) \/ NewUUID_Fallback(c) \/ NewUUID_Ok(c)

SpecID == Init /\ [][NextID]_vars


(***************************************************************************)
(* Properties                                                              *)
(***************************************************************************)
\* The routes registered in collection c of ctx, as (pattern, handler) pairs.
Registered(ctx, c) ==
    LET m == CASE c = 1 -> ctx.Handlers_HTML.Public
               [] c = 2 -> ctx.Handlers_HTML.Authd
               [] c = 3 -> ctx.Handlers_XHR.Public
               [] c = 4 -> ctx.Handlers_XHR.Authd
               [] c = 5 -> ctx.Handlers_WS.Public
               [] c = 6 -> ctx.Handlers_WS.Authd
               [] c = 7 -> ctx.Handlers_FILE.Public
    IN  IF c \in WSClasses
        THEN {[r |-> m[i].URL, h |-> m[i].Procs] : i \in DOMAIN m}
        ELSE {[r |-> r, h |-> m[r]] : r \in DOMAIN m}

\* The handler closure the route (r, h) of collection c is to be served by.
Expected(c, e) ==
    IF c \in WSClasses
    THEN makeHandler_WS([URL |-> e.r, Procs |-> e.h], ClassAuthd(c))
    ELSE makeHandler(ClassAdapter(c), e.h, ClassAuthd(c))

Started == last.op \in {"Initialize", "Serve"} /\ router.bound

\* The number of routes of the router bound under path.
BoundUnder(rt, path) ==
    Cardinality({i \in DOMAIN rt.routes : rt.routes[i].pattern = path})

\* C1: once Initialize_Router has bound the handler maps, a request whose path
\* is the pattern of a registered route is dispatched to the handler (for WS:
\* the route descriptor with its own URL and Procs) registered for that
\* pattern in that collection, with that collection's auth flag.  Stated for
\* the patterns exactly one route is bound under, where no other registration
\* competes for the request.
C1_DispatchToOwnHandler ==
    Started =>
        \A c \in DOMAIN Classes : \A e \in Registered(_ctx, c) :
            BoundUnder(router, e.r) = 1 => Resolve(router, e.r) = Expected(c, e)

\* C2: a request without a valid session to a pattern registered in an Authd
\* collection ends in the auth rejection, whatever else is registered, and
\* the pattern is bound with the auth flag set.
C2_AuthdAlwaysGated ==
    Started =>
        \A c \in {2, 4, 6} : \A e \in Registered(_ctx, c) :
            /\ \E i \in DOMAIN router.routes :
                  /\ router.routes[i].pattern = e.r
                  /\ router.routes[i].f.authd
                  /\ router.routes[i].f.adapter = ClassAdapter(c)
            /\ (last.op = "Serve" /\ last.path = e.r /\ ~last.session)
                  => (last.outcome = "AuthRejected" /\ ~last.invoked)

\* A cookieMaxAge string that is a decimal integer: an optional sign, then one
\* or more digits.
IsInteger(s) ==
    /\ s # <<>>
    /\ LET body == IF s[1] \in {"+", "-"} THEN SubSeq(s, 2, Len(s)) ELSE s
       IN  body # <<>> /\ \A i \in DOMAIN body : body[i] \in Digits

\* A decimal integer that is not below zero.
IsNonNegativeInteger(s) ==
    /\ IsInteger(s)
    /\ s[1] = "-" => \A i \in 2..Len(s) : s[i] = "0"

\* The number a decimal integer string denotes, digit by digit from the right.
RECURSIVE Magnitude(_)
Magnitude(body) ==
    IF body = <<>> THEN 0
    ELSE 10 * Magnitude(SubSeq(body, 1, Len(body) - 1)) + DigitVal(body[Len(body)])

IntegerValue(s) ==
    IF s[1] = "-" THEN 0 - Magnitude(SubSeq(s, 2, Len(s)))
    ELSE IF s[1] = "+" THEN Magnitude(SubSeq(s, 2, Len(s)))
    ELSE Magnitude(s)

AuthCall == last.op \in {"auth.Initialize", "Initialize_Auth"}

\* The configuration of the last call is the one stored.
StoredAsGiven ==
    /\ _cookieSessName = last.params.CookieName
    /\ _cookieStoreId = last.params.CookieStoreId
    /\ _cookieStore = NewCookieStore(last.params.CookieStoreId)
    /\ _cookiePath = last.params.CookiePath
    /\ _cookieDomain = last.params.CookieDomain
    /\ _cookieMaxAge = IntegerValue(last.params.CookieMaxAge)

\* C3 as stated: auth configuration fails if and only if the cookie name is
\* empty, the store id is empty, or maxAge is not a valid non-negative
\* integer; otherwise it succeeds and stores the given values.
C3_ErrorIffNotNonNegative ==
    AuthCall =>
        /\ last.err # NoErr <=>
              \/ last.params.CookieName = ""
              \/ last.params.CookieStoreId = ""
              \/ ~IsNonNegativeInteger(last.params.CookieMaxAge)
        /\ last.err = NoErr => StoredAsGiven

\* C3 amended: auth configuration fails if and only if the cookie name is
\* empty, the store id is empty, or maxAge is not a decimal integer (a sign
\* is allowed, so a negative maxAge is accepted); otherwise it succeeds and
\* stores the given values, maxAge as the number it denotes.
C3_ErrorIffNotInteger ==
    AuthCall =>
        /\ last.err # NoErr <=>
              \/ last.params.CookieName = ""
              \/ last.params.CookieStoreId = ""
              \/ ~IsInteger(last.params.CookieMaxAge)
        /\ last.err = NoErr => StoredAsGiven

\* C3 witness: a configuration with a negative maxAge went through
\* Initialize_Auth and was stored.
C3_Witness ==
    /\ last.op = "Initialize_Auth"
    /\ last.err = NoErr
    /\ last.params.CookieMaxAge = <<"-", "1">>
    /\ _cookieMaxAge = 0 - 1
    /\ _cookieSessName = "sess"

\* C4: api_http.Initialize with no OnPanic callback and everything else valid
\* returns "OnPanic handler must be provided", and nothing is started: no
\* router is bound, no transport package is initialized, _ctx is not stored.
C4_NoOnPanicPreventsStartup ==
    (/\ last.op = "Initialize"
     /\ last.onPanic = NIL
     /\ last.auth = ValidAuth
     /\ last.seerOk)
        => /\ last.err = ErrOnPanic
           /\ ~router.bound
           /\ router.routes = <<>>
           /\ reqres_onPanic = NIL
           /\ xhr_onPanic = NIL
           /\ _verGetter = NIL
           /\ _onPanic = NIL
           /\ _ctx = NilPtr

\* C4 witness: Initialize was called without OnPanic, passed the auth and
\* directory steps and returned the OnPanic error.
C4_Witness ==
    /\ last.op = "Initialize"
    /\ last.onPanic = NIL
    /\ last.auth = ValidAuth
    /\ last.seerOk
    /\ last.err = ErrOnPanic
    /\ _versionWatcher = Seer
    /\ deAuthListeners # <<>>

\* Two registrations of one (pattern, transport kind, auth class): a URL that
\* occurs twice in a WS slice, or a pattern that two synonym expansions of
\* one HTML map both produce.
HasDuplicateRoute(ctx) ==
    \/ \E c \in WSClasses :
          LET sl == IF c = 5 THEN ctx.Handlers_WS.Public ELSE ctx.Handlers_WS.Authd
          IN  \E i, j \in DOMAIN sl : i # j /\ sl[i].URL = sl[j].URL
    \/ \E c \in {1, 2} :
          LET m == IF c = 1 THEN ctx.Handlers_HTML.Public ELSE ctx.Handlers_HTML.Authd
          IN  \E r1, r2 \in DOMAIN m :
                \E i \in DOMAIN routeSynonyms(r1), j \in DOMAIN routeSynonyms(r2) :
                    /\ (r1 # r2 \/ i # j)
                    /\ routeSynonyms(r1)[i] = routeSynonyms(r2)[j]

\* C5: registering the same (pattern, transport kind, auth class) a second
\* time makes initialization return an error.
C5_DuplicateRouteFails ==
    (last.op = "Initialize" /\ last.err = NoErr) => ~HasDuplicateRoute(_ctx)

\* C6: every synonym of an HTML route resolves to the handler and the auth
\* gate of the source route.
C6_SynonymsResolveAlike ==
    Started =>
        \A c \in {1, 2} : \A e \in Registered(_ctx, c) :
            \A i \in DOMAIN routeSynonyms(e.r) :
                Resolve(router, routeSynonyms(e.r)[i]) = Expected(c, e)

C8_FailedCallKeepsConfig ==
    [][(last'.op = "auth.Initialize" /\ last'.err # NoErr)
          => UNCHANGED authVars]_vars

\* C9: Initialize_Auth adds the listener CloseAuthdConn to the registry when
\* it returns success and leaves the registry alone when it returns an error.
C9_ListenerOnlyOnSuccess ==
    [][last'.op = "Initialize_Auth"
          => deAuthListeners' = IF last'.err = NoErr
                                THEN Append(deAuthListeners, CloseAuthdConn)
                                ELSE deAuthListeners]_vars

\* C10: no two calls of NewID get the same value: the k-th increment returns
\* k, every ID is positive, and each caller sees strictly increasing IDs.
C10_UniqueIncreasingIDs ==
    /\ \A k \in DOMAIN completed : completed[k] = k
    /\ _lastID = Len(completed)
    /\ \A c \in Callers :
          /\ \A i \in DOMAIN returned[c] : returned[c][i] > 0
          /\ \A i, j \in DOMAIN returned[c] : i < j => returned[c][i] < returned[c][j]
    /\ \A c, d \in Callers :
          \A i \in DOMAIN returned[c], j \in DOMAIN returned[d] :
              (c # d \/ i # j) => returned[c][i] # returned[d][j]

\* C10 witness: two callers have each drawn IDs, interleaved.
C10_Witness ==
    \E c, d \in Callers :
        /\ c # d
        /\ Len(returned[c]) >= 2
        /\ Len(returned[d]) >= 2
        /\ returned[c][1] < returned[d][1]
        /\ returned[d][1] < returned[c][2]

====
